---- MODULE Spec2Model ----
(***************************************************************************)
(* Model of two clippy lint passes:                                        *)
(*   clippy_lints/src/write.rs              (the `Write` late lint pass)   *)
(*   clippy_lints/src/matches/manual_map.rs (the MANUAL_MAP rule)          *)
(*                                                                         *)
(* Source text is modelled as sequences of one-character strings.  The     *)
(* tokens "LF" and "CR" stand for the line feed and carriage return        *)
(* characters themselves (as opposed to the two-character escapes).        *)
(***************************************************************************)
EXTENDS Integers, Sequences, FiniteSets, TLC

VARIABLES in_debug_impl, items, call, diags, text, unescaped, mm_in, mm_out

vars == <<in_debug_impl, items, call, diags, text, unescaped, mm_in, mm_out>>

write_vars == <<in_debug_impl, items, call, diags>>
unescape_vars == <<text, unescaped>>
map_vars == <<mm_in, mm_out>>

(***************************************************************************)
(* Bounds                                                                  *)
(***************************************************************************)
MaxDepth == 3     \* nesting depth of items in a traversal
MaxArgs == 2      \* format arguments of a call site
MaxFmtArgs == 1   \* placeholders of a format string whose text varies
MaxSegLen == 2    \* source characters per literal segment
MaxLen == 3       \* characters of a literal's content
MaxRefs == 1      \* reference layers of a pattern or of the scrutinee's type
MaxBlocks == 1    \* blocks around an arm body
MaxOps == 2       \* field / reference / index operations of a scrutinee

(***************************************************************************)
(* Generic helpers                                                         *)
(***************************************************************************)
\* the sequence <<f[1], ..., f[n]>>
RECURSIVE ToSeq(_, _)
ToSeq(f, n) == IF n = 0 THEN <<>> ELSE Append(ToSeq(f, n - 1), f[n])

\* the sequences over S of length at most n
RECURSIVE SeqsUpTo(_, _)
SeqsUpTo(S, n) ==
    IF n = 0 THEN {<<>>}
    ELSE LET shorter == SeqsUpTo(S, n - 1)
         IN  shorter \cup {Append(s, x) : s \in shorter, x \in S}

BS == "\\"
DQ == "\""

RECURSIVE Concat(_)
Concat(ss) == IF ss = <<>> THEN <<>> ELSE Head(ss) \o Concat(Tail(ss))

\* str::ends_with for a character sequence
EndsWith(s, suffix) ==
    /\ Len(s) >= Len(suffix)
    /\ SubSeq(s, Len(s) - Len(suffix) + 1, Len(s)) = suffix

\* str::contains for a set of characters
ContainsAny(s, chars) == \E i \in 1..Len(s) : s[i] \in chars

\* str::replace(ch, with) for a single character pattern
RECURSIVE Replace(_, _, _)
Replace(s, ch, with) ==
    IF s = <<>> THEN <<>>
    ELSE (IF Head(s) = ch THEN with ELSE <<Head(s)>>) \o Replace(Tail(s), ch, with)

(***************************************************************************)
(* write.rs: conservative_unescape                                         *)
(***************************************************************************)
Ok(t) == [kind |-> "Ok", text |-> t]
ErrLint == [kind |-> "Lint", text |-> <<>>]
ErrIgnore == [kind |-> "Ignore", text |-> <<>>]

\* mutant of unescape_loop: a `#` is copied like any other character
RECURSIVE unescape_loop_hash_copied(_, _, _)
unescape_loop_hash_copied(chars, acc, err) ==
    IF chars = <<>> THEN (IF err THEN ErrLint ELSE Ok(acc))
    ELSE LET ch == Head(chars)
             rest == Tail(chars)
         IN  IF ch = BS THEN
                 IF rest = <<>> THEN ErrIgnore
                 ELSE IF Head(rest) = BS
                      THEN unescape_loop_hash_copied(Tail(rest), Append(acc, BS), err)
                 ELSE IF Head(rest) = DQ THEN unescape_loop_hash_copied(Tail(rest), acc, TRUE)
                 ELSE ErrIgnore
             ELSE unescape_loop_hash_copied(rest, Append(acc, ch), err)

\* mutant of unescape_loop: an unknown escape is reported for manual
\* resolution instead of being left alone
RECURSIVE unescape_loop_escape_lints(_, _, _)
unescape_loop_escape_lints(chars, acc, err) ==
    IF chars = <<>> THEN (IF err THEN ErrLint ELSE Ok(acc))
    ELSE LET ch == Head(chars)
             rest == Tail(chars)
         IN  IF ch = "#" THEN unescape_loop_escape_lints(rest, acc, TRUE)
             ELSE IF ch = BS THEN
                 IF rest = <<>> THEN ErrIgnore
                 ELSE IF Head(rest) = BS
                      THEN unescape_loop_escape_lints(Tail(rest), Append(acc, BS), err)
                 ELSE unescape_loop_escape_lints(Tail(rest), acc, TRUE)
             ELSE unescape_loop_escape_lints(rest, Append(acc, ch), err)

\* mutant of unescape_loop: a doubled backslash is copied as it stands
RECURSIVE unescape_loop_pair_kept(_, _, _)
unescape_loop_pair_kept(chars, acc, err) ==
    IF chars = <<>> THEN (IF err THEN ErrLint ELSE Ok(acc))
    ELSE LET ch == Head(chars)
             rest == Tail(chars)
         IN  IF ch = "#" THEN unescape_loop_pair_kept(rest, acc, TRUE)
             ELSE IF ch = BS THEN
                 IF rest = <<>> THEN ErrIgnore
                 ELSE IF Head(rest) = BS
                      THEN unescape_loop_pair_kept(Tail(rest), acc \o <<BS, BS>>, err)
                 ELSE IF Head(rest) = DQ THEN unescape_loop_pair_kept(Tail(rest), acc, TRUE)
                 ELSE ErrIgnore
             ELSE unescape_loop_pair_kept(rest, Append(acc, ch), err)

RECURSIVE unescape_loop(_, _, _)
unescape_loop(chars, acc, err) ==
    IF chars = <<>> THEN (IF err THEN ErrLint ELSE Ok(acc))
    ELSE LET ch == Head(chars)
             rest == Tail(chars)
         IN  IF ch = "#" THEN unescape_loop(rest, acc, TRUE)
             ELSE IF ch = BS THEN
                 IF rest = <<>> THEN ErrIgnore
                 ELSE IF Head(rest) = BS THEN unescape_loop(Tail(rest), Append(acc, BS), err)
                 ELSE IF Head(rest) = DQ THEN unescape_loop(Tail(rest), acc, TRUE)
                 ELSE ErrIgnore
             ELSE unescape_loop(rest, Append(acc, ch), err)

conservative_unescape(literal) == unescape_loop(literal, <<>>, FALSE)

(***************************************************************************)
(* write.rs: extract_str_literal                                           *)
(***************************************************************************)
RECURSIVE TrimStart(_, _)
TrimStart(s, ch) == IF s # <<>> /\ Head(s) = ch THEN TrimStart(Tail(s), ch) ELSE s

RECURSIVE TrimEnd(_, _)
TrimEnd(s, ch) ==
    IF s # <<>> /\ s[Len(s)] = ch THEN TrimEnd(SubSeq(s, 1, Len(s) - 1), ch) ELSE s

trim_matches(s, ch) == TrimEnd(TrimStart(s, ch), ch)

extract_str_literal(literal) ==
    LET raw == literal # <<>> /\ Head(literal) = "r"
        lit == IF raw THEN trim_matches(Tail(literal), "#") ELSE literal
    IN  [text |-> SubSeq(lit, 2, Len(lit) - 1), raw |-> raw]

(***************************************************************************)
(* The decomposed format call (FormatArgsExpn) as write.rs reads it.       *)
(*                                                                         *)
(* A call site is described by the source text of its format string, cut   *)
(* at the `{}` placeholders into source segments.  From the source the     *)
(* host derives `format_string.parts` (the literal pieces, escapes         *)
(* decoded, a line feed appended by the `..ln` macros, a trailing empty    *)
(* piece dropped) and `args` (one per placeholder).                        *)
(***************************************************************************)
FormatMacros == {"print_macro", "println_macro", "eprint_macro", "eprintln_macro",
                 "write_macro", "writeln_macro"}
NewlineMacros == {"println_macro", "eprintln_macro", "writeln_macro"}
\* what `get_diagnostic_name` and the two lookups before it can give
DiagNames == FormatMacros \cup {"format_macro", "NoMacroCall", "NoDiagnosticName", "Option"}

\* diag_name.as_str().strip_suffix("_macro")
strip_suffix_macro(diag_name) ==
    CASE diag_name = "print_macro" -> "print"
      [] diag_name = "println_macro" -> "println"
      [] diag_name = "eprint_macro" -> "eprint"
      [] diag_name = "eprintln_macro" -> "eprintln"
      [] diag_name = "write_macro" -> "write"
      [] diag_name = "writeln_macro" -> "writeln"
      [] diag_name = "format_macro" -> "format"
      [] OTHER -> "None"

\* the character an escape `\c` of an ordinary (non-raw) literal denotes
EscapeValue(ch) ==
    CASE ch = "n" -> "LF"
      [] ch = "r" -> "CR"
      [] OTHER -> ch

\* the value of the body of an ordinary literal: escapes decoded
RECURSIVE unescape_literal(_)
unescape_literal(s) ==
    IF s = <<>> THEN <<>>
    ELSE IF Head(s) = BS /\ Len(s) >= 2
         THEN <<EscapeValue(s[2])>> \o unescape_literal(Tail(Tail(s)))
         ELSE <<Head(s)>> \o unescape_literal(Tail(s))

\* a body an ordinary literal can have: every backslash starts a known
\* escape, no bare double quote, no bare carriage return
RECURSIVE WellFormedEscaped(_)
WellFormedEscaped(s) ==
    IF s = <<>> THEN TRUE
    ELSE IF Head(s) = BS
         THEN Len(s) >= 2 /\ s[2] \in {BS, DQ, "n", "r"} /\ WellFormedEscaped(Tail(Tail(s)))
         ELSE Head(s) \notin {DQ, "CR"} /\ WellFormedEscaped(Tail(s))

\* a body a raw literal with `hashes` hashes can have
WellFormedRaw(s, hashes) ==
    /\ "CR" \notin {s[i] : i \in 1..Len(s)}
    /\ IF hashes = 0 THEN DQ \notin {s[i] : i \in 1..Len(s)}
       ELSE \A i \in 1..(Len(s) - 1) : ~(s[i] = DQ /\ s[i + 1] = "#")

Hashes(k) == ToSeq([i \in 1..k |-> "#"], k)

\* the source text of a string literal
StrLiteral(raw, hashes, body) ==
    IF raw THEN <<"r">> \o Hashes(hashes) \o <<DQ>> \o body \o <<DQ>> \o Hashes(hashes)
    ELSE <<DQ>> \o body \o <<DQ>>

RECURSIVE JoinSegs(_)
JoinSegs(segs) ==
    IF Len(segs) <= 1 THEN Concat(segs)
    ELSE Head(segs) \o <<"{", "}">> \o JoinSegs(Tail(segs))

\* format_string.parts
FormatParts(diag_name, raw, segs) ==
    LET n == Len(segs)
        nl == diag_name \in NewlineMacros
        value(i) == IF raw THEN segs[i] ELSE unescape_literal(segs[i])
        pieces == ToSeq([i \in 1..n |-> IF nl /\ i = n THEN Append(value(i), "LF")
                                                        ELSE value(i)], n)
    IN  IF pieces[n] = <<>> THEN SubSeq(pieces, 1, n - 1) ELSE pieces

\* one entry of format_args.args, with the value it formats
FormatArg(trait, is_default, count, lit, ch, value_string, from_expansion, snippet_ok) ==
    [trait |-> trait, is_default |-> is_default, count |-> count, lit |-> lit, ch |-> ch,
     value_string |-> value_string, from_expansion |-> from_expansion,
     snippet_ok |-> snippet_ok]

\* an argument that is no literal: `{}` or `{:?}` of a variable
PlainArg(trait) == FormatArg(trait, trait = "Display", 1, "None", "", <<>>, FALSE, TRUE)

\* the call site handed to check_expr
FormatCall(diag_name, is_build_script, found, from_expansion, raw, segs, snippet_ok, args) ==
    [diag_name |-> diag_name, is_build_script |-> is_build_script, found |-> found,
     from_expansion |-> from_expansion, raw |-> raw,
     parts |-> FormatParts(diag_name, raw, segs),
     snippet |-> StrLiteral(raw, 0, JoinSegs(segs)),
     snippet_ok |-> snippet_ok, args |-> args]

(***************************************************************************)
(* Spans, edits and diagnostics                                            *)
(***************************************************************************)
\* a span: the node it covers, byte offsets within that node's text, and
\* whether it was widened to take in the comma before the node
Span(of, idx, lo, hi) == [of |-> of, idx |-> idx, lo |-> lo, hi |-> hi, comma |-> FALSE]

expand_past_previous_comma(span) == [span EXCEPT !.comma = TRUE]

\* snippet_opt of a (possibly widened) span whose node has the text `t`
SnippetOf(span, t) == IF span.comma THEN <<",", " ">> \o t ELSE t

Edit(span, replacement) == [span |-> span, text |-> replacement]

\* a diagnostic; fix = <<>> when it carries no suggestion
Diag(lint, span, fix) == [lint |-> lint, span |-> span, fix |-> fix]

MacroCallSpan == Span("macro_call", 0, 0, 0)
NameSpan == Span("macro_name", 0, 0, 0)

(***************************************************************************)
(* write.rs: check_newline                                                 *)
(***************************************************************************)
\* the closure count_vertical_whitespace
count_vertical_whitespace(format_string_parts) ==
    LET all == Concat(format_string_parts)
    IN  Cardinality({i \in 1..Len(all) : all[i] \in {"CR", "LF"}})

\* mutant of newline_condition: `>=` for `>` in the guard against a
\* trailing argument
newline_condition_ge(format_string_parts, nargs) ==
    /\ EndsWith(format_string_parts[Len(format_string_parts)], <<"LF">>)
    /\ count_vertical_whitespace(format_string_parts) = 1
    /\ Len(format_string_parts) >= nargs

\* the condition of lines 339-344, for a non-empty list of parts
newline_condition(format_string_parts, nargs) ==
    /\ EndsWith(format_string_parts[Len(format_string_parts)], <<"LF">>)
    /\ count_vertical_whitespace(format_string_parts) = 1
    /\ Len(format_string_parts) > nargs

\* mutant of newline_span: the offsets one byte too far right
newline_span_shifted(format_string_span) ==
    LET hi == format_string_span.hi
    IN  [format_string_span EXCEPT !.lo = hi - 2, !.hi = hi]

\* lines 374-375: the two bytes before the closing quote
newline_span(format_string_span) ==
    LET hi == format_string_span.hi
    IN  [format_string_span EXCEPT !.lo = hi - 3, !.hi = hi - 1]

check_newline(format_args, name) ==
    LET format_string_parts == format_args.parts
        span0 == Span("format_string", 0, 0, Len(format_args.snippet))
    IN  IF format_string_parts = <<>> THEN <<>>
        ELSE
        LET last == format_string_parts[Len(format_string_parts)]
        IN  IF newline_condition(format_string_parts, Len(format_args.args))
            THEN
                LET format_string_span ==
                        IF name = "write" THEN expand_past_previous_comma(span0) ELSE span0
                    lint == IF name = "write" THEN "WRITE_WITH_NEWLINE" ELSE "PRINT_WITH_NEWLINE"
                    format_snippet == SnippetOf(format_string_span, format_args.snippet)
                    fix ==
                        IF ~format_args.snippet_ok THEN <<>>
                        ELSE IF Len(format_string_parts) = 1 /\ last = <<"LF">>
                        THEN <<Edit(NameSpan, <<name, "ln">>), Edit(format_string_span, <<>>)>>
                        ELSE IF EndsWith(format_snippet, <<BS, "n", DQ>>)
                        THEN <<Edit(NameSpan, <<name, "ln">>), Edit(newline_span(format_string_span), <<>>)>>
                        ELSE <<>>
                IN  <<Diag(lint, MacroCallSpan, fix)>>
            ELSE <<>>

(***************************************************************************)
(* write.rs: check_empty_string                                            *)
(***************************************************************************)
\* mutant of check_empty_string: the comma before the format string of a
\* writeln is left behind
check_empty_string_keeps_comma(format_args, name) ==
    LET parts == format_args.parts
        span0 == Span("format_string", 0, 0, Len(format_args.snippet))
    IN  IF Len(parts) = 1 /\ parts[1] = <<"LF">>
        THEN LET lint == IF name = "writeln" THEN "WRITELN_EMPTY_STRING"
                                             ELSE "PRINTLN_EMPTY_STRING"
             IN  <<Diag(lint, MacroCallSpan, <<Edit(span0, <<>>)>>)>>
        ELSE <<>>

check_empty_string(format_args, name) ==
    LET parts == format_args.parts
        span0 == Span("format_string", 0, 0, Len(format_args.snippet))
    IN  IF Len(parts) = 1 /\ parts[1] = <<"LF">>
        THEN LET span == IF name = "writeln" THEN expand_past_previous_comma(span0) ELSE span0
                 lint == IF name = "writeln" THEN "WRITELN_EMPTY_STRING"
                                             ELSE "PRINTLN_EMPTY_STRING"
             IN  <<Diag(lint, MacroCallSpan, <<Edit(span, <<>>)>>)>>
        ELSE <<>>

(***************************************************************************)
(* write.rs: check_literal                                                 *)
(***************************************************************************)
\* the (replacement, replace_raw) pair of lines 433-446; ok = FALSE is `continue`
literal_replacement(arg) ==
    CASE arg.lit = "Str" ->
            LET e == extract_str_literal(arg.value_string)
            IN  [ok |-> TRUE, text |-> e.text, raw |-> e.raw]
      [] arg.lit = "Char" ->
            [ok |-> TRUE,
             text |-> CASE arg.ch = DQ -> <<BS, DQ>>
                        [] arg.ch = "'" -> <<"'">>
                        [] OTHER -> SubSeq(arg.value_string, 2, Len(arg.value_string) - 1),
             raw |-> FALSE]
      [] arg.lit = "Bool" -> [ok |-> TRUE, text |-> arg.value_string, raw |-> FALSE]
      [] OTHER -> [ok |-> FALSE, text |-> <<>>, raw |-> FALSE]

\* mutant of inline_replacement: Err(Lint) abstains like Err(Ignore)
inline_replacement_lint_skipped(format_string_is_raw, replace_raw, replacement) ==
    CASE ~format_string_is_raw /\ ~replace_raw -> [kind |-> "Some", text |-> replacement]
      [] ~format_string_is_raw /\ replace_raw ->
            [kind |-> "Some",
             text |-> Replace(Replace(replacement, DQ, <<BS, DQ>>), BS, <<BS, BS>>)]
      [] format_string_is_raw /\ ~replace_raw ->
            LET u == conservative_unescape(replacement)
            IN  CASE u.kind = "Ok" -> [kind |-> "Some", text |-> u.text]
                  [] OTHER -> [kind |-> "continue", text |-> <<>>]
      [] OTHER ->
            IF ContainsAny(replacement, {"#", DQ})
            THEN [kind |-> "None", text |-> <<>>]
            ELSE [kind |-> "Some", text |-> replacement]

\* the match on (format_string_is_raw, replace_raw) of lines 455-470:
\* kind "Some" (a replacement), "None" (lint without a fix) or "continue"
inline_replacement(format_string_is_raw, replace_raw, replacement) ==
    CASE ~format_string_is_raw /\ ~replace_raw -> [kind |-> "Some", text |-> replacement]
      [] ~format_string_is_raw /\ replace_raw ->
            [kind |-> "Some",
             text |-> Replace(Replace(replacement, DQ, <<BS, DQ>>), BS, <<BS, BS>>)]
      [] format_string_is_raw /\ ~replace_raw ->
            LET u == conservative_unescape(replacement)
            IN  CASE u.kind = "Ok" -> [kind |-> "Some", text |-> u.text]
                  [] u.kind = "Lint" -> [kind |-> "None", text |-> <<>>]
                  [] OTHER -> [kind |-> "continue", text |-> <<>>]
      [] OTHER ->
            IF ContainsAny(replacement, {"#", DQ})
            THEN [kind |-> "None", text |-> <<>>]
            ELSE [kind |-> "Some", text |-> replacement]

\* the braces of an inlined text doubled (line 483)
escape_braces(replacement) ==
    Replace(Replace(replacement, "{", <<"{", "{">>), "}", <<"}", "}">>)

\* one iteration of the loop over format_args.args
check_literal_arg(format_args, name, i) ==
    LET arg == format_args.args[i]
        value_span == Span("value", i, 0, Len(arg.value_string))
        arg_span == Span("arg", i, 0, 2)
    IN  IF /\ arg.count = 1
           /\ arg.is_default
           /\ arg.lit # "None"
           /\ ~arg.from_expansion
           /\ arg.snippet_ok
        THEN
            LET r == literal_replacement(arg)
                lint == IF name \in {"write", "writeln"} THEN "WRITE_LITERAL"
                                                         ELSE "PRINT_LITERAL"
                replacement == inline_replacement(format_args.raw, r.raw, r.text)
            IN  IF ~r.ok \/ replacement.kind = "continue" THEN <<>>
                ELSE IF replacement.kind = "None" THEN <<Diag(lint, value_span, <<>>)>>
                ELSE <<Diag(lint, value_span,
                            <<Edit(arg_span, escape_braces(replacement.text)),
                              Edit(expand_past_previous_comma(value_span), <<>>)>>)>>
        ELSE <<>>

check_literal(format_args, name) ==
    LET n == Len(format_args.args)
    IN  Concat(ToSeq([i \in 1..n |-> check_literal_arg(format_args, name, i)], n))

(***************************************************************************)
(* write.rs: the debug-formatting check at the end of check_expr           *)
(***************************************************************************)
check_use_debug(flag, format_args) ==
    IF ~flag
    THEN LET n == Len(format_args.args)
         IN  Concat(ToSeq([i \in 1..n |->
                              IF format_args.args[i].trait = "Debug"
                              THEN <<Diag("USE_DEBUG", Span("arg", i, 0, 2), <<>>)>>
                              ELSE <<>>], n))
    ELSE <<>>

(***************************************************************************)
(* write.rs: Write::check_expr, as the diagnostics it raises               *)
(***************************************************************************)
check_expr_diags(flag, c) ==
    LET name == strip_suffix_macro(c.diag_name)
        first ==
            CASE c.diag_name \in {"print_macro", "println_macro"} ->
                    IF ~c.is_build_script THEN <<Diag("PRINT_STDOUT", MacroCallSpan, <<>>)>>
                    ELSE <<>>
              [] c.diag_name \in {"eprint_macro", "eprintln_macro"} ->
                    <<Diag("PRINT_STDERR", MacroCallSpan, <<>>)>>
              [] OTHER -> <<>>
    IN  IF c.diag_name \in {"NoMacroCall", "NoDiagnosticName"} \/ name = "None" THEN <<>>
        ELSE IF c.diag_name \notin FormatMacros THEN <<>>
        ELSE IF ~c.found \/ c.from_expansion THEN first
        ELSE first
             \o (IF c.diag_name \in NewlineMacros THEN check_empty_string(c, name)
                                                  ELSE check_newline(c, name))
             \o check_literal(c, name)
             \o check_use_debug(flag, c)

(***************************************************************************)
(* The handlers of the Write pass.  `items` is the driver's position: the  *)
(* items entered and not yet left, each with its is_debug_impl answer.     *)
(* `call` and `diags` are the call site the last handler looked at and     *)
(* the diagnostics it raised.                                              *)
(***************************************************************************)
check_item_flag(flag, is_debug_impl) == IF is_debug_impl THEN TRUE ELSE flag

\* mutant of check_item_post_flag: the flag is not cleared on leaving
check_item_post_flag_kept(flag, is_debug_impl) == flag

check_item_post_flag(flag, is_debug_impl) == IF is_debug_impl THEN FALSE ELSE flag

check_item(is_debug_impl) ==
    /\ Len(items) < MaxDepth
    /\ in_debug_impl' = check_item_flag(in_debug_impl, is_debug_impl)
    /\ items' = Append(items, is_debug_impl)
    /\ call' = <<>>
    /\ diags' = <<>>
    /\ UNCHANGED <<unescape_vars, map_vars>>

check_item_post ==
    /\ items # <<>>
    /\ in_debug_impl' = check_item_post_flag(in_debug_impl, items[Len(items)])
    /\ items' = SubSeq(items, 1, Len(items) - 1)
    /\ call' = <<>>
    /\ diags' = <<>>
    /\ UNCHANGED <<unescape_vars, map_vars>>

check_expr(c) ==
    /\ call' = <<c>>
    /\ diags' = check_expr_diags(in_debug_impl, c)
    /\ UNCHANGED <<in_debug_impl, items, unescape_vars, map_vars>>

(***************************************************************************)
(* Initial state: a freshly constructed pass (#[derive(Default)]), before  *)
(* the traversal has entered any item.                                     *)
(***************************************************************************)
Init ==
    /\ in_debug_impl = FALSE
    /\ items = <<>>
    /\ call = <<>>
    /\ diags = <<>>
    /\ text = <<>>
    /\ unescaped = <<>>
    /\ mm_in = <<>>
    /\ mm_out = <<>>

(***************************************************************************)
(* Spec: a traversal of nested items with print/write call sites whose     *)
(* arguments are formatted with Display or Debug.                          *)
(***************************************************************************)
\* n source segments of plain text
PlainSegs(n) == ToSeq([i \in 1..n |-> <<"n">>], n)

TraversalCalls ==
    {FormatCall(d, FALSE, f, e, FALSE, PlainSegs(Len(args) + 1), TRUE, args) :
        d \in {"print_macro", "eprintln_macro", "write_macro", "format_macro", "NoMacroCall"},
        f \in BOOLEAN, e \in BOOLEAN,
        args \in SeqsUpTo({PlainArg("Display"), PlainArg("Debug")}, MaxArgs)}

Next ==
    \/ \E is_debug_impl \in BOOLEAN : check_item(is_debug_impl)
    \/ check_item_post
    \/ call = <<>> /\ \E c \in TraversalCalls : check_expr(c)

Spec == Init /\ [][Next]_vars

\* the call site the last handler looked at reached the four checks
Decomposed ==
    /\ call # <<>>
    /\ call[1].diag_name \in FormatMacros
    /\ call[1].found
    /\ ~call[1].from_expansion

\* the call site is lexically inside a debug-trait implementation block
InsideDebugImpl == \E i \in 1..Len(items) : items[i]

UseDebugRaised(i) ==
    \E k \in 1..Len(diags) : diags[k].lint = "USE_DEBUG" /\ diags[k].span.idx = i

\* C1: no USE_DEBUG diagnostic is raised for a call site enclosed by at
\* least one debug-trait implementation block that has been entered and not
\* yet left, nested implementation blocks included.
C1_NoDebugLintInsideDebugImpl ==
    InsideDebugImpl => \A k \in 1..Len(diags) : diags[k].lint # "USE_DEBUG"

\* C2: wherever no debug-trait implementation block encloses the current
\* point the flag is false, and every Debug-formatted argument of a
\* decomposed call there gets a USE_DEBUG diagnostic.
C2_FlagNeverLeaks ==
    ~InsideDebugImpl =>
        /\ in_debug_impl = FALSE
        /\ Decomposed =>
              \A i \in 1..Len(call[1].args) :
                  call[1].args[i].trait = "Debug" => UseDebugRaised(i)

\* a decomposed call with a Debug argument inside a non-debug item only,
\* with its diagnostic raised
C2_Witness ==
    /\ Decomposed
    /\ items # <<>>
    /\ ~InsideDebugImpl
    /\ \E i \in 1..Len(call[1].args) :
          call[1].args[i].trait = "Debug" /\ UseDebugRaised(i)

(***************************************************************************)
(* SpecFormat: one print/write call site per behaviour, its format string  *)
(* drawn from the bounded source texts below.  check_expr reads no state   *)
(* but in_debug_impl, so call sites are independent of one another.        *)
(***************************************************************************)
SegChars == {BS, "n", "r", "LF"}

\* the source segments a literal of the given style can hold
SegTexts(raw, n) ==
    {t \in SeqsUpTo(SegChars, n) : IF raw THEN WellFormedRaw(t, 0) ELSE WellFormedEscaped(t)}

\* the segments before the last placeholder
LeadingSegs == {<<>>, <<"n">>, <<"LF">>, <<BS, "n">>, <<BS, "r">>}

\* a call site whose format string is written in the given style
FormatCallOfStyle(raw) ==
    \E d \in FormatMacros, b \in BOOLEAN, ok \in BOOLEAN,
       lead \in SeqsUpTo(LeadingSegs, MaxFmtArgs),
       last \in SegTexts(raw, MaxSegLen) :
        check_expr(FormatCall(d, b, TRUE, FALSE, raw, Append(lead, last), ok,
                              ToSeq([i \in 1..Len(lead) |-> PlainArg("Display")],
                                    Len(lead))))

NextFormat == call = <<>> /\ \E raw \in BOOLEAN : FormatCallOfStyle(raw)

SpecFormat == Init /\ [][NextFormat]_vars

NewlineLints == {"PRINT_WITH_NEWLINE", "WRITE_WITH_NEWLINE"}
EmptyStringLints == {"PRINTLN_EMPTY_STRING", "WRITELN_EMPTY_STRING"}

DiagsOf(lints) == {k \in 1..Len(diags) : diags[k].lint \in lints}

\* the number of line terminators in all literal segments together
LineTerminators(parts) ==
    Cardinality({<<i, j>> \in (1..Len(parts)) \X (1..MaxSegLen + 2) :
                    j <= Len(parts[i]) /\ parts[i][j] \in {"CR", "LF"}})

\* C5: for print, eprint and write the newline-duplication diagnostic is
\* raised if and only if the last literal segment ends with a line feed,
\* exactly one line terminator occurs in all segments together and there
\* are more segments than arguments; with no segment nothing is raised.
C5_NewlineTrigger ==
    Decomposed =>
        LET c == call[1]
            n == Len(c.parts)
        IN  IF c.diag_name \in NewlineMacros THEN DiagsOf(NewlineLints) = {}
            ELSE /\ Cardinality(DiagsOf(NewlineLints)) <= 1
                 /\ DiagsOf(NewlineLints) # {} <=>
                       /\ n > 0
                       /\ Len(c.parts[n]) > 0
                       /\ c.parts[n][Len(c.parts[n])] = "LF"
                       /\ LineTerminators(c.parts) = 1
                       /\ n > Len(c.args)

\* the diagnostic raised for a format string with an argument before its
\* final newline
C5_Witness ==
    /\ Decomposed
    /\ Len(call[1].args) >= 1
    /\ DiagsOf(NewlineLints) # {}

\* the format string literal of the call with the bytes of `span` removed
WithoutSpan(span) ==
    LET t == call[1].snippet
    IN  SubSeq(t, 1, span.lo) \o SubSeq(t, span.hi + 1, Len(t))

\* the value of a format string literal given as source text
LiteralValue(raw, literal) ==
    IF raw THEN SubSeq(literal, 3, Len(literal) - 1)
    ELSE unescape_literal(SubSeq(literal, 2, Len(literal) - 1))

\* the edit renames the macro to its line-terminated counterpart
IsRename(e) ==
    /\ e.span = NameSpan
    /\ e.text = <<strip_suffix_macro(call[1].diag_name), "ln">>

\* the edit deletes the whole format-string argument, with the comma that
\* separates it from the destination of a write
IsWholeRemoval(e) ==
    /\ e.text = <<>>
    /\ e.span.of = "format_string"
    /\ e.span.lo = 0
    /\ e.span.hi = Len(call[1].snippet)
    /\ e.span.comma = (call[1].diag_name \in {"write_macro", "writeln_macro"})

\* the edit deletes the newline escape that ends the format string: what
\* is left is a literal whose value is the old value without its last line
\* feed
IsNewlineEscapeRemoval(e) ==
    /\ e.text = <<>>
    /\ e.span.of = "format_string"
    /\ SubSeq(call[1].snippet, e.span.lo + 1, e.span.hi) = <<BS, "n">>
    /\ e.span.hi = Len(call[1].snippet) - 1
    /\ LET old == LiteralValue(call[1].raw, call[1].snippet)
           new == LiteralValue(call[1].raw, WithoutSpan(e.span))
       IN  old = Append(new, "LF")

SingleLineTerminator == call[1].parts = <<(<<"LF">>)>>

\* the statement of C6 as written: every newline-duplication diagnostic
\* carries a fix of exactly two edits, a rename and a removal.
C6_EveryNewlineDiagHasFix ==
    \A k \in DiagsOf(NewlineLints) :
        LET fix == diags[k].fix
        IN  /\ Len(fix) = 2
            /\ IsRename(fix[1])
            /\ IF SingleLineTerminator THEN IsWholeRemoval(fix[2])
                                       ELSE IsNewlineEscapeRemoval(fix[2])

\* the cases in which check_newline attaches a suggestion
FixOffered ==
    /\ call[1].snippet_ok
    /\ \/ SingleLineTerminator
       \/ EndsWith(call[1].snippet, <<BS, "n", DQ>>)

\* C6 (amended): a newline-duplication diagnostic carries a fix when the
\* source of the format string can be read and the string is either the
\* single segment "\n" or ends, in the source, with the escape `\n"`; the
\* fix then is exactly two edits, the rename and the removal.  Otherwise
\* (the line feed is written in another way, or the source cannot be read)
\* the diagnostic is raised without a fix.
C6_NewlineFix ==
    \A k \in DiagsOf(NewlineLints) :
        LET fix == diags[k].fix
        IN  IF FixOffered
            THEN /\ Len(fix) = 2
                 /\ IsRename(fix[1])
                 /\ IF SingleLineTerminator THEN IsWholeRemoval(fix[2])
                                            ELSE IsNewlineEscapeRemoval(fix[2])
            ELSE fix = <<>>

\* a write whose format string has text and an argument before the final
\* newline escape, with the two-edit fix
C6_Witness ==
    /\ Decomposed
    /\ call[1].diag_name = "write_macro"
    /\ Len(call[1].args) >= 1
    /\ ~SingleLineTerminator
    /\ \E k \in DiagsOf(NewlineLints) : Len(diags[k].fix) = 2

\* the statement of C7 as written: the fix of the empty-string-body check
\* deletes the format-string argument and renames the macro.
C7_EmptyStringFixRenames ==
    \A k \in DiagsOf(EmptyStringLints) :
        LET fix == diags[k].fix
        IN  /\ \E i \in 1..Len(fix) : IsWholeRemoval(fix[i])
            /\ \E i \in 1..Len(fix) : fix[i].span = NameSpan

\* C7 (amended): when the empty-string-body check triggers (println,
\* eprintln, writeln with exactly one literal segment, equal to a single
\* line terminator), its fix is one edit that deletes the format-string
\* argument entirely; the macro, already the line-terminated form, is not
\* renamed.
C7_EmptyStringFix ==
    /\ Decomposed /\ call[1].diag_name \in NewlineMacros /\ SingleLineTerminator
          => Cardinality(DiagsOf(EmptyStringLints)) = 1
    /\ \A k \in DiagsOf(EmptyStringLints) :
          /\ Decomposed /\ call[1].diag_name \in NewlineMacros /\ SingleLineTerminator
          /\ Len(diags[k].fix) = 1
          /\ IsWholeRemoval(diags[k].fix[1])

\* writeln!(f, "") with its diagnostic
C7_Witness ==
    /\ Decomposed
    /\ call[1].diag_name = "writeln_macro"
    /\ DiagsOf(EmptyStringLints) # {}

(***************************************************************************)
(* SpecLiteral: a literal content `text` is drawn; conservative_unescape   *)
(* is applied to it, and check_expr visits one call site that formats a    *)
(* literal argument spelled with that content (as an ordinary string, a    *)
(* raw string or a character literal, wherever the content is one the      *)
(* spelling can hold).                                                     *)
(***************************************************************************)
LitChars == {"n", BS, DQ, "#", "{"}

Texts == SeqsUpTo(LitChars, MaxLen)

\* a body a character literal can have
WellFormedChar(t) ==
    \/ Len(t) = 1 /\ t[1] # BS
    \/ Len(t) = 2 /\ t[1] = BS /\ t[2] \in {BS, DQ, "n"}

\* (count, is_default, from_expansion, snippet_ok): eligible, and each way
\* of not being eligible
Eligibility ==
    {<<1, TRUE, FALSE, TRUE>>, <<2, TRUE, FALSE, TRUE>>, <<1, FALSE, FALSE, TRUE>>,
     <<1, TRUE, TRUE, TRUE>>, <<1, TRUE, FALSE, FALSE>>}

LitArg(lit, ch, value_string, e) ==
    FormatArg("Display", e[2], e[1], lit, ch, value_string, e[3], e[4])

\* the literal arguments spelled with content t
LiteralArgs(t) ==
    UNION {
        (IF WellFormedEscaped(t) THEN {LitArg("Str", "", StrLiteral(FALSE, 0, t), e)} ELSE {})
        \cup {LitArg("Str", "", StrLiteral(TRUE, h, t), e) :
                h \in {h \in {0, 1} : WellFormedRaw(t, h)}}
        \cup (IF WellFormedChar(t)
              THEN {LitArg("Char", unescape_literal(t)[1], <<"'">> \o t \o <<"'">>, e)}
              ELSE {})
        \cup (IF t = <<>>
              THEN {LitArg("Char", "'", <<"'", BS, "'", "'">>, e),
                    LitArg("Bool", "", <<"true">>, e),
                    LitArg("Other", "", <<"1">>, e)}
              ELSE {})
        : e \in Eligibility}

\* the arguments around the literal under test
OtherArgs == {PlainArg("Display"), LitArg("Bool", "", <<"false">>, <<1, TRUE, FALSE, TRUE>>)}

LiteralCalls(t) ==
    {FormatCall(d, FALSE, TRUE, FALSE, raw, PlainSegs(Len(args) + 1), TRUE, args) :
        d \in {"print_macro", "writeln_macro"}, raw \in BOOLEAN,
        args \in {<<a>> : a \in LiteralArgs(t)}
                 \cup {<<a, o>> : a \in LiteralArgs(t), o \in OtherArgs}
                 \cup {<<o, a>> : a \in LiteralArgs(t), o \in OtherArgs}}

InitLiteral ==
    /\ in_debug_impl = FALSE
    /\ items = <<>>
    /\ call = <<>>
    /\ diags = <<>>
    /\ text \in Texts
    /\ unescaped = <<>>
    /\ mm_in = <<>>
    /\ mm_out = <<>>

ApplyUnescape ==
    /\ unescaped = <<>>
    /\ unescaped' = <<conservative_unescape(text)>>
    /\ UNCHANGED <<write_vars, text, map_vars>>

NextLiteral ==
    \/ ApplyUnescape
    \/ call = <<>> /\ \E c \in LiteralCalls(text) : check_expr(c)

SpecLiteral == InitLiteral /\ [][NextLiteral]_vars

\* some backslash that starts an escape pair (an even number of
\* backslashes stands right before it) is followed by something other
\* than a backslash or a double quote, or by nothing
HasBadEscape(t) ==
    \E i \in 1..Len(t) :
        /\ t[i] = BS
        /\ \E j \in 0..(i - 1) :
              /\ j % 2 = 0
              /\ \A k \in (i - j)..(i - 1) : t[k] = BS
              /\ (i - j = 1 \/ t[i - j - 1] # BS)
        /\ (i = Len(t) \/ t[i + 1] \notin {BS, DQ})

\* the statement of C9 as written: a text with a `#` gives LintOnly.
C9_HashForcesLintOnly ==
    unescaped # <<>> /\ ContainsAny(text, {"#"}) => unescaped[1].kind = "Lint"

\* C9 (amended): a text with a `#` gives LintOnly provided no escape pair
\* of the text forces Abstain; an escape pair that forces Abstain gives
\* Abstain wherever it stands, after a `#` as well as before (the `#` only
\* sets a flag that is reported when the scan has reached the end).
C9_HashLintOnlyUnlessAbstain ==
    unescaped # <<>> /\ ContainsAny(text, {"#"}) =>
        unescaped[1].kind = (IF HasBadEscape(text) THEN "Ignore" ELSE "Lint")

\* a `#` followed by text without escapes, reported as LintOnly
C9_Witness ==
    /\ unescaped # <<>>
    /\ Len(text) >= 2
    /\ text[1] = "#"
    /\ unescaped[1].kind = "Lint"

LiteralLints == {"PRINT_LITERAL", "WRITE_LITERAL"}

\* the literal-inlining diagnostics raised for argument i
ArgDiags(i) ==
    {k \in 1..Len(diags) :
        diags[k].lint \in LiteralLints /\ diags[k].span.of = "value" /\ diags[k].span.idx = i}

\* referenced once, default format, a text, character or boolean literal
\* written at the call site
Eligible(arg) ==
    /\ arg.count = 1
    /\ arg.is_default
    /\ arg.lit \in {"Str", "Char", "Bool"}
    /\ ~arg.from_expansion
    /\ arg.snippet_ok

IsRawLiteral(arg) == arg.lit = "Str" /\ arg.value_string[1] = "r"

\* the replacement text of a literal before any unescaping: the content of
\* a string, the table entry of a character, the spelling of a boolean
ReplacementText(arg) ==
    CASE arg.lit = "Str" -> text
      [] arg.lit = "Char" /\ arg.ch = DQ -> <<BS, DQ>>
      [] arg.lit = "Char" /\ arg.ch = "'" -> <<"'">>
      [] arg.lit = "Char" -> text
      [] OTHER -> arg.value_string

\* argument i has exactly one diagnostic, without a suggestion
LintOnlyFor(i) ==
    /\ Cardinality(ArgDiags(i)) = 1
    /\ \A k \in ArgDiags(i) : diags[k].fix = <<>>

\* argument i has exactly one diagnostic, whose fix puts t (braces
\* doubled) in place of the placeholder and deletes the argument
InlinedFor(i, t) ==
    /\ Cardinality(ArgDiags(i)) = 1
    /\ \A k \in ArgDiags(i) :
          /\ Len(diags[k].fix) = 2
          /\ diags[k].fix[1].span.of = "arg" /\ diags[k].fix[1].span.idx = i
          /\ diags[k].fix[1].text = escape_braces(t)
          /\ diags[k].fix[2].span.of = "value" /\ diags[k].fix[2].span.idx = i
          /\ diags[k].fix[2].span.comma
          /\ diags[k].fix[2].text = <<>>

\* the outcome of the Unescape Transform on t decides for argument i
UnescapeDecides(i, t) ==
    LET u == conservative_unescape(t)
    IN  CASE u.kind = "Ignore" -> ArgDiags(i) = {}
          [] u.kind = "Lint" -> LintOnlyFor(i)
          [] OTHER -> InlinedFor(i, u.text)

\* the statement of C8 as written: in a raw format string the Unescape
\* Transform decides for every eligible literal argument, raw or escaped.
C8_UnescapeDecidesAlways ==
    Decomposed /\ call[1].raw =>
        \A i \in 1..Len(call[1].args) :
            Eligible(call[1].args[i]) => UnescapeDecides(i, ReplacementText(call[1].args[i]))

\* C8 (amended): in a raw format string the Unescape Transform decides for
\* every eligible literal argument that is not itself a raw literal
\* (Abstain: no diagnostic; LintOnly: diagnostic without edits; Fixable:
\* diagnostic with the unescaped text inlined).  The content of a raw
\* literal argument is not passed through the transform: the diagnostic is
\* always raised, without edits when the content holds a `#` or a double
\* quote, and with the content inlined unchanged otherwise.
C8_UnescapeDecidesEscaped ==
    Decomposed /\ call[1].raw =>
        \A i \in 1..Len(call[1].args) :
            LET arg == call[1].args[i]
            IN  Eligible(arg) =>
                    IF IsRawLiteral(arg)
                    THEN IF ContainsAny(text, {"#", DQ}) THEN LintOnlyFor(i)
                                                         ELSE InlinedFor(i, text)
                    ELSE UnescapeDecides(i, ReplacementText(arg))

\* an escaped string literal with a doubled backslash inlined into a raw
\* format string
C8_Witness ==
    /\ Decomposed
    /\ call[1].raw
    /\ \E i \in 1..Len(call[1].args) :
          /\ Eligible(call[1].args[i])
          /\ call[1].args[i].lit = "Str"
          /\ ~IsRawLiteral(call[1].args[i])
          /\ ContainsAny(text, {BS})
          /\ InlinedFor(i, conservative_unescape(text).text)

\* C10: conservative_unescape returns Abstain for every text in which a
\* backslash that starts an escape pair is followed by something other
\* than a backslash or a double quote, or by the end of the text, and
\* check_literal then raises no diagnostic for that argument.
C10_BadEscapeAbstains ==
    /\ unescaped # <<>> /\ HasBadEscape(text) => unescaped[1].kind = "Ignore"
    /\ Decomposed /\ call[1].raw =>
          \A i \in 1..Len(call[1].args) :
              LET arg == call[1].args[i]
              IN  /\ Eligible(arg)
                  /\ ~IsRawLiteral(arg)
                  /\ HasBadEscape(ReplacementText(arg))
                  => ArgDiags(i) = {}

\* "\n" as an argument of a raw format string: Abstain, and no diagnostic
C10_Witness ==
    /\ unescaped # <<>>
    /\ unescaped[1].kind = "Ignore"
    /\ Decomposed
    /\ call[1].raw
    /\ \E i \in 1..Len(call[1].args) :
          /\ Eligible(call[1].args[i])
          /\ call[1].args[i].lit = "Str"
          /\ ~IsRawLiteral(call[1].args[i])
          /\ HasBadEscape(text)
          /\ ArgDiags(i) = {}

\* the printed (escaped) form of a character sequence: a backslash, a
\* double quote, a line feed and a carriage return are written as the
\* escapes `\\`, `\"`, `\n` and `\r`, every other character as itself
RECURSIVE escape_printed(_)
escape_printed(s) ==
    IF s = <<>> THEN <<>>
    ELSE (CASE Head(s) = BS -> <<BS, BS>>
            [] Head(s) = DQ -> <<BS, DQ>>
            [] Head(s) = "LF" -> <<BS, "n">>
            [] Head(s) = "CR" -> <<BS, "r">>
            [] OTHER -> <<Head(s)>>) \o escape_printed(Tail(s))

\* text is the printed form of some character sequence, which is then
\* unescape_literal(text)
IsPrintedForm(t) == WellFormedEscaped(t) /\ escape_printed(unescape_literal(t)) = t

\* position i of t holds a backslash that starts an escape pair
IsEscapeStart(t, i) ==
    /\ t[i] = BS
    /\ \E j \in 0..(i - 1) :
          /\ j % 2 = 0
          /\ \A k \in (i - j)..(i - 1) : t[k] = BS
          /\ (i - j = 1 \/ t[i - j - 1] # BS)

\* t with each doubled backslash collapsed to one backslash and every
\* other character copied
RECURSIVE CollapsePairs(_)
CollapsePairs(t) ==
    IF t = <<>> THEN <<>>
    ELSE IF Len(t) >= 2 /\ t[1] = BS /\ t[2] = BS
         THEN <<BS>> \o CollapsePairs(Tail(Tail(t)))
         ELSE <<Head(t)>> \o CollapsePairs(Tail(t))

\* C11: whenever conservative_unescape returns Fixable(t) for a text, the
\* text holds no `#` and no escape pair other than the doubled backslash,
\* t is the text with each doubled backslash collapsed to one backslash
\* and every other character copied, and, when the text is the printed
\* (escaped) form of a character sequence s, t equals s.
C11_RoundTrip ==
    unescaped # <<>> /\ unescaped[1].kind = "Ok" =>
        /\ ~ContainsAny(text, {"#"})
        /\ \A i \in 1..Len(text) :
              IsEscapeStart(text, i) => i < Len(text) /\ text[i + 1] = BS
        /\ unescaped[1].text = CollapsePairs(text)
        /\ IsPrintedForm(text) => unescaped[1].text = unescape_literal(text)

\* the printed form of a backslash followed by a plain character, given
\* back as those two characters
C11_Witness ==
    /\ unescaped # <<>>
    /\ unescaped[1].kind = "Ok"
    /\ IsPrintedForm(text)
    /\ Len(text) = 3
    /\ unescape_literal(text) = <<BS, "n">>
    /\ unescaped[1].text = <<BS, "n">>

\* the text a format string denotes for `{{` and `}}`: one brace
RECURSIVE undouble_braces(_)
undouble_braces(t) ==
    IF t = <<>> THEN <<>>
    ELSE IF Len(t) >= 2 /\ t[1] \in {"{", "}"} /\ t[2] = t[1]
         THEN <<t[1]>> \o undouble_braces(Tail(Tail(t)))
         ELSE <<Head(t)>> \o undouble_braces(Tail(t))

\* C15: when a raw string literal argument is inlined into a format
\* string that is not raw, the text put in place of the placeholder,
\* taken before the braces are doubled, is the body of a well-formed
\* escaped literal (no double quote is left unescaped) and denotes, under
\* standard escape decoding, the content of the raw literal.
C15_RawInlinedFaithfully ==
    Decomposed /\ ~call[1].raw =>
        \A i \in 1..Len(call[1].args) :
            Eligible(call[1].args[i]) /\ IsRawLiteral(call[1].args[i]) =>
                \A k \in ArgDiags(i) :
                    diags[k].fix # <<>> =>
                        LET produced == undouble_braces(diags[k].fix[1].text)
                        IN  /\ WellFormedEscaped(produced)
                            /\ unescape_literal(produced) = text

(***************************************************************************)
(* manual_map.rs                                                           *)
(*                                                                         *)
(* A pattern is [refs, kind, ctxt_same, inner]: `refs` reference layers    *)
(* around a base of kind "Wild", "None" (path to the None constructor),    *)
(* "Some" (tuple struct of the Some constructor with one field) or         *)
(* "Other"; ctxt_same says the pattern's span has the context of the whole *)
(* expression; inner is the payload pattern of a Some.                     *)
(* An expression (arm body) is [blocks, kind, ctxt_same, arg]: the blocks  *)
(* around it, outermost first, each "Default", "Unsafe" (written by the    *)
(* user) or "CompilerUnsafe" (no statement, a trailing expression) or      *)
(* "Stmts"; kind "None", "SomeCall" or "Other"; arg is the argument of the *)
(* Some call.                                                              *)
(***************************************************************************)
Pat(refs, kind, ctxt_same, inner) ==
    [refs |-> refs, kind |-> kind, ctxt_same |-> ctxt_same, inner |-> inner]

\* payload pattern: kind "Binding" (annotation, no sub-pattern), "Or",
\* or "Tuple" (any other pattern), with what contains_explicit_ref_binding
\* finds in it: "None", "Not" or "Mut"
PayloadPat(kind, annotation, explicit_ref) ==
    [kind |-> kind, annotation |-> annotation, explicit_ref |-> explicit_ref]

BindingPat(annotation) ==
    PayloadPat("Binding", annotation,
               CASE annotation = "REF" -> "Not"
                 [] annotation = "REF_MUT" -> "Mut"
                 [] OTHER -> "None")

Body(blocks, kind, ctxt_same, arg) ==
    [blocks |-> blocks, kind |-> kind, ctxt_same |-> ctxt_same, arg |-> arg]

OptionPat(kind, pattern, ref_count) ==
    [kind |-> kind, pattern |-> pattern, ref_count |-> ref_count]

\* try_parse_pattern::f
RECURSIVE try_parse_pattern_f(_, _)
try_parse_pattern_f(pat, ref_count) ==
    IF pat.refs > 0 THEN try_parse_pattern_f([pat EXCEPT !.refs = @ - 1], ref_count + 1)
    ELSE CASE pat.kind = "Wild" -> OptionPat("Wild", pat.inner, 0)
           [] pat.kind = "None" -> OptionPat("None", pat.inner, 0)
           [] pat.kind = "Some" /\ pat.ctxt_same -> OptionPat("Some", pat.inner, ref_count)
           [] OTHER -> OptionPat("NoMatch", pat.inner, 0)

try_parse_pattern(pat) == try_parse_pattern_f(pat, 0)

\* mutant of get_some_expr: the unsafe block is peeled like any other
RECURSIVE get_some_expr_unsafe_dropped(_, _)
get_some_expr_unsafe_dropped(expr, needs_unsafe_block) ==
    IF expr.blocks = <<>>
    THEN IF expr.kind = "SomeCall" /\ expr.ctxt_same
         THEN [found |-> TRUE, expr |-> expr.arg, needs_unsafe_block |-> needs_unsafe_block]
         ELSE [found |-> FALSE, expr |-> expr.arg, needs_unsafe_block |-> FALSE]
    ELSE IF Head(expr.blocks) = "Stmts"
         THEN [found |-> FALSE, expr |-> expr.arg, needs_unsafe_block |-> FALSE]
         ELSE get_some_expr_unsafe_dropped([expr EXCEPT !.blocks = Tail(@)],
                                           needs_unsafe_block)

\* get_some_expr: found, the wrapped expression, needs_unsafe_block
RECURSIVE get_some_expr(_, _)
get_some_expr(expr, needs_unsafe_block) ==
    IF expr.blocks = <<>>
    THEN IF expr.kind = "SomeCall" /\ expr.ctxt_same
         THEN [found |-> TRUE, expr |-> expr.arg, needs_unsafe_block |-> needs_unsafe_block]
         ELSE [found |-> FALSE, expr |-> expr.arg, needs_unsafe_block |-> FALSE]
    ELSE IF Head(expr.blocks) = "Stmts"
         THEN [found |-> FALSE, expr |-> expr.arg, needs_unsafe_block |-> FALSE]
         ELSE get_some_expr([expr EXCEPT !.blocks = Tail(@)],
                            needs_unsafe_block \/ Head(expr.blocks) = "Unsafe")

\* clippy_utils::peel_blocks: the default blocks that hold nothing but a
\* trailing expression are removed
RECURSIVE peel_blocks(_)
peel_blocks(expr) ==
    IF expr.blocks # <<>> /\ Head(expr.blocks) = "Default"
    THEN peel_blocks([expr EXCEPT !.blocks = Tail(@)])
    ELSE expr

is_none_expr(expr) ==
    LET e == peel_blocks(expr)
    IN  e.blocks = <<>> /\ e.kind = "None"

\* the match of lines 65-82: which arm holds the Some pattern
NoCandidate ==
    [found |-> FALSE, some_expr |-> "", some_pat |-> PayloadPat("", "", ""),
     pat_ref_count |-> 0, is_wild_none |-> FALSE]

Candidate(some_expr, p, is_wild_none) ==
    [found |-> TRUE, some_expr |-> some_expr, some_pat |-> p.pattern,
     pat_ref_count |-> p.ref_count, is_wild_none |-> is_wild_none]

\* mutant of select_arms: the guard on the body of a wildcard first arm is
\* forgotten
select_arms_unguarded(then_parsed, else_parsed, then_body, else_body) ==
    CASE then_parsed.kind = "Wild" /\ else_parsed.kind = "Some" ->
            Candidate("else", else_parsed, TRUE)
      [] then_parsed.kind = "None" /\ else_parsed.kind = "Some" /\ is_none_expr(then_body) ->
            Candidate("else", else_parsed, FALSE)
      [] then_parsed.kind = "Some" /\ else_parsed.kind = "Wild" /\ is_none_expr(else_body) ->
            Candidate("then", then_parsed, TRUE)
      [] then_parsed.kind = "Some" /\ else_parsed.kind = "None" /\ is_none_expr(else_body) ->
            Candidate("then", then_parsed, FALSE)
      [] OTHER -> NoCandidate

select_arms(then_parsed, else_parsed, then_body, else_body) ==
    CASE then_parsed.kind = "Wild" /\ else_parsed.kind = "Some" /\ is_none_expr(then_body) ->
            Candidate("else", else_parsed, TRUE)
      [] then_parsed.kind = "None" /\ else_parsed.kind = "Some" /\ is_none_expr(then_body) ->
            Candidate("else", else_parsed, FALSE)
      [] then_parsed.kind = "Some" /\ else_parsed.kind = "Wild" /\ is_none_expr(else_body) ->
            Candidate("then", then_parsed, TRUE)
      [] then_parsed.kind = "Some" /\ else_parsed.kind = "None" /\ is_none_expr(else_body) ->
            Candidate("then", then_parsed, FALSE)
      [] OTHER -> NoCandidate

\* The argument of the Some call, with what the queries on it answer:
\* its type is unit, it carries adjustments, can_move_expr_to_closure
\* (can_move, and the capture kind of each local: "Absent", "Value",
\* "RefNot" or "RefMut"), its form ("Call" with one argument, "Path",
\* "Other"), whether that argument / path is the payload binding, whether
\* the argument carries adjustments, whether the callee is an unsafe
\* function, whether the callee's span has the context of the argument.
Locals == {"Local1", "Local2"}

SomeArg(is_unit, adjusted, can_move, captures, form, on_binding, call_arg_adjusted, func_unsafe, func_ctxt_same) ==
    [is_unit |-> is_unit, adjusted |-> adjusted, can_move |-> can_move,
     captures |-> captures, form |-> form, on_binding |-> on_binding,
     call_arg_adjusted |-> call_arg_adjusted, func_unsafe |-> func_unsafe,
     func_ctxt_same |-> func_ctxt_same]

\* the scrutinee: Field / AddrOf / Index operations, outermost first,
\* around a root that is a local, a call or a unary operation; ctxt_same
\* says its span has the context of the whole expression
Scrutinee(ops, root, ctxt_same) == [ops |-> ops, root |-> root, ctxt_same |-> ctxt_same]

\* what the lint context answers about the expression
Cx(scrutinee_is_option, expr_is_option, ty_ref_count, ty_mutability, option_map_unit_fn_allowed, match_as_ref_allowed, is_else_clause) ==
    [scrutinee_is_option |-> scrutinee_is_option, expr_is_option |-> expr_is_option,
     ty_ref_count |-> ty_ref_count, ty_mutability |-> ty_mutability,
     option_map_unit_fn_allowed |-> option_map_unit_fn_allowed,
     match_as_ref_allowed |-> match_as_ref_allowed, is_else_clause |-> is_else_clause]

\* peel_hir_expr_while with the closure of lines 122-125
RECURSIVE peel_fields_and_refs(_)
peel_fields_and_refs(e) ==
    IF e.ops # <<>> /\ Head(e.ops) \in {"Field", "AddrOf"}
    THEN peel_fields_and_refs([e EXCEPT !.ops = Tail(@)])
    ELSE e

\* clippy_utils::peel_hir_expr_refs(..).0
RECURSIVE peel_hir_expr_refs(_)
peel_hir_expr_refs(e) ==
    IF e.ops # <<>> /\ Head(e.ops) = "AddrOf"
    THEN peel_hir_expr_refs([e EXCEPT !.ops = Tail(@)])
    ELSE e

\* mutant of binding_ref_of: a difference of reference depths is looked at
\* before the annotation
binding_ref_of_mismatch_first(explicit_ref, ty_ref_count, pat_ref_count, ty_mutability) ==
    IF ty_ref_count # pat_ref_count THEN ty_mutability
    ELSE explicit_ref

\* lines 107-108
binding_ref_of(explicit_ref, ty_ref_count, pat_ref_count, ty_mutability) ==
    IF explicit_ref # "None" THEN explicit_ref
    ELSE IF ty_ref_count # pat_ref_count THEN ty_mutability
    ELSE "None"

\* mutant of capture_conflict: a capture by mutable reference is let
\* through
capture_conflict_value_only(binding_ref, scrutinee, captures) ==
    IF binding_ref # "None"
    THEN LET e == peel_fields_and_refs(scrutinee)
         IN  IF e.ops = <<>> /\ e.root \in Locals
             THEN CASE captures[e.root] = "Value" -> TRUE
                    [] captures[e.root] = "RefNot" /\ binding_ref = "Mut" -> TRUE
                    [] OTHER -> FALSE
             ELSE FALSE
    ELSE FALSE

\* lines 121-135: a capture of the closure conflicts with the borrow of
\* the scrutinee
capture_conflict(binding_ref, scrutinee, captures) ==
    IF binding_ref # "None"
    THEN LET e == peel_fields_and_refs(scrutinee)
         IN  IF e.ops = <<>> /\ e.root \in Locals
             THEN CASE captures[e.root] \in {"Value", "RefMut"} -> TRUE
                    [] captures[e.root] = "RefNot" /\ binding_ref = "Mut" -> TRUE
                    [] OTHER -> FALSE
             ELSE FALSE
    ELSE FALSE

can_pass_as_func(expr) ==
    /\ expr.form = "Call"
    /\ expr.on_binding
    /\ ~expr.call_arg_adjusted
    /\ ~expr.func_unsafe

\* the outcome of check: the return it left by, and the suggestion
Abstain(exit) ==
    [exit |-> exit, lint |-> FALSE, scrutinee |-> Scrutinee(<<>>, "", TRUE), parens |-> FALSE,
     as_ref_str |-> "", body |-> "", mut_annotation |-> FALSE, unsafe_block |-> FALSE,
     braces |-> FALSE]

Suggest(scrutinee, parens, as_ref_str, body, mut_annotation, unsafe_block, braces) ==
    [exit |-> "lint", lint |-> TRUE, scrutinee |-> scrutinee, parens |-> parens,
     as_ref_str |-> as_ref_str, body |-> body, mut_annotation |-> mut_annotation,
     unsafe_block |-> unsafe_block, braces |-> braces]

\* mutant of synthesize: a single binding under a reference adapter is
\* left to MATCH_AS_REF whatever the body is
synthesize_defers_always(cx, scrutinee0, cand, some_expr, binding_ref, has_else_pat) ==
    LET scrutinee == peel_hir_expr_refs(scrutinee0)
        parens == scrutinee.ctxt_same /\ scrutinee.ops = <<>> /\ scrutinee.root = "Unary"
        as_ref_str == CASE binding_ref = "Mut" -> ".as_mut()"
                        [] binding_ref = "Not" -> ".as_ref()"
                        [] OTHER -> ""
        braces == ~has_else_pat /\ cx.is_else_clause
        some_pat == cand.some_pat
        e == some_expr.expr
    IN  IF some_pat.kind = "Binding"
        THEN IF ~some_expr.needs_unsafe_block /\ can_pass_as_func(e) /\ e.func_ctxt_same
             THEN Suggest(scrutinee, parens, as_ref_str, "func", FALSE, FALSE, braces)
             ELSE IF ~cx.match_as_ref_allowed /\ binding_ref # "None"
                  THEN Abstain("match_as_ref")
                  ELSE Suggest(scrutinee, parens, as_ref_str, "closure",
                               some_pat.annotation = "MUT", some_expr.needs_unsafe_block,
                               braces)
        ELSE IF ~cand.is_wild_none /\ some_pat.explicit_ref = "None"
             THEN Suggest(scrutinee, parens, as_ref_str, "closure_pat", FALSE,
                          some_expr.needs_unsafe_block, braces)
             ELSE Abstain("refutable")

\* lines 140-207: the text of the suggestion, once nothing has rejected
\* the candidate
synthesize(cx, scrutinee0, cand, some_expr, binding_ref, has_else_pat) ==
    LET scrutinee == peel_hir_expr_refs(scrutinee0)
        parens == scrutinee.ctxt_same /\ scrutinee.ops = <<>> /\ scrutinee.root = "Unary"
        as_ref_str == CASE binding_ref = "Mut" -> ".as_mut()"
                        [] binding_ref = "Not" -> ".as_ref()"
                        [] OTHER -> ""
        braces == ~has_else_pat /\ cx.is_else_clause
        some_pat == cand.some_pat
        e == some_expr.expr
    IN  IF some_pat.kind = "Binding"
        THEN IF ~some_expr.needs_unsafe_block /\ can_pass_as_func(e) /\ e.func_ctxt_same
             THEN Suggest(scrutinee, parens, as_ref_str, "func", FALSE, FALSE, braces)
             ELSE IF /\ e.form = "Path" /\ e.on_binding
                     /\ ~cx.match_as_ref_allowed
                     /\ binding_ref # "None"
                  THEN Abstain("match_as_ref")
                  ELSE Suggest(scrutinee, parens, as_ref_str, "closure",
                               some_pat.annotation = "MUT", some_expr.needs_unsafe_block,
                               braces)
        ELSE IF ~cand.is_wild_none /\ some_pat.explicit_ref = "None"
             THEN Suggest(scrutinee, parens, as_ref_str, "closure_pat", FALSE,
                          some_expr.needs_unsafe_block, braces)
             ELSE Abstain("refutable")

\* else_pat is <<>> for None and <<pat>> for Some(pat)
check(cx, scrutinee, then_pat, then_body, else_pat, else_body) ==
    IF ~(cx.scrutinee_is_option /\ cx.expr_is_option) THEN Abstain("not_option")
    ELSE
    LET cand == select_arms(try_parse_pattern(then_pat),
                            IF else_pat = <<>> THEN OptionPat("Wild", then_pat.inner, 0)
                            ELSE try_parse_pattern(else_pat[1]),
                            then_body, else_body)
    IN  IF ~cand.found THEN Abstain("no_candidate")
        ELSE IF cand.some_pat.kind = "Or" THEN Abstain("or_pattern")
        ELSE
        LET some_expr == get_some_expr(IF cand.some_expr = "then" THEN then_body
                                                                 ELSE else_body, FALSE)
            e == some_expr.expr
            binding_ref == binding_ref_of(cand.some_pat.explicit_ref, cx.ty_ref_count,
                                          cand.pat_ref_count, cx.ty_mutability)
        IN  IF ~some_expr.found THEN Abstain("no_some_expr")
            ELSE IF e.is_unit /\ ~cx.option_map_unit_fn_allowed THEN Abstain("unit")
            ELSE IF e.adjusted THEN Abstain("adjusted")
            ELSE IF ~e.can_move THEN Abstain("cannot_move")
            ELSE IF capture_conflict(binding_ref, scrutinee, e.captures)
                 THEN Abstain("capture_conflict")
            ELSE synthesize(cx, scrutinee, cand, some_expr, binding_ref, else_pat # <<>>)

\* an arm of a match
Arm(pat, body, guard) == [pat |-> pat, body |-> body, guard |-> guard]

\* the two entry points; mm_in is the expression looked at, mm_out the
\* outcome
check_match(cx, scrutinee, arms) ==
    /\ mm_in' = <<[entry |-> "check_match", cx |-> cx, scrutinee |-> scrutinee,
                   arms |-> arms]>>
    /\ mm_out' = IF Len(arms) = 2 /\ ~arms[1].guard /\ ~arms[2].guard
                 THEN <<check(cx, scrutinee, arms[1].pat, arms[1].body,
                              <<arms[2].pat>>, arms[2].body)>>
                 ELSE <<Abstain("not_two_arms")>>
    /\ UNCHANGED <<write_vars, unescape_vars>>

\* `if let let_pat = let_expr { then_expr } else { else_expr }`: the else
\* branch is kept as a second arm without a pattern
check_if_let(cx, let_pat, let_expr, then_expr, else_expr) ==
    /\ mm_in' = <<[entry |-> "check_if_let", cx |-> cx, scrutinee |-> let_expr,
                   arms |-> <<Arm(let_pat, then_expr, FALSE),
                              Arm(Pat(0, "", TRUE, let_pat.inner), else_expr, FALSE)>>]>>
    /\ mm_out' = <<check(cx, let_expr, let_pat, then_expr, <<>>, else_expr)>>
    /\ UNCHANGED <<write_vars, unescape_vars>>

(***************************************************************************)
(* SpecMap: one two-armed conditional per behaviour.  Three families of    *)
(* inputs: the arm patterns and bodies vary over every recognised and      *)
(* unrecognised shape (ShapeMatch, ShapeIfLet); or the arms are            *)
(* `Some(p) => Some(e)` with an absent-valued other arm and the scrutinee, *)
(* the reference depths, the payload pattern and the captures of e vary    *)
(* (CaptureMatch, CaptureIfLet); or the reference depths, the payload      *)
(* pattern, the blocks around the Some call and the form of e vary         *)
(* (SynthMatch, SynthIfLet).                                               *)
(***************************************************************************)
NoCaptures == [l \in Locals |-> "Absent"]

PlainSomeArg == SomeArg(FALSE, FALSE, TRUE, NoCaptures, "Other", FALSE, FALSE, FALSE, TRUE)

NoneBody == Body(<<>>, "None", TRUE, PlainSomeArg)

ShapePats ==
    {Pat(r, k, TRUE, BindingPat("NONE")) :
        r \in 0..MaxRefs, k \in {"Wild", "None", "Some", "Other"}}
    \cup {Pat(r, "Some", FALSE, BindingPat("NONE")) : r \in 0..MaxRefs}

ShapeBodies ==
    {Body(bl, k, TRUE, PlainSomeArg) :
        bl \in SeqsUpTo({"Default", "Unsafe", "Stmts"}, MaxBlocks),
        k \in {"None", "SomeCall", "Other"}}
    \cup {Body(<<>>, "SomeCall", FALSE, PlainSomeArg)}

\* the types the host has resolved agree with the shapes: a Some or None
\* pattern matches an Option only, a None or Some(..) body is an Option
WellTyped(cx, pats, bodies) ==
    /\ (\E i \in 1..Len(pats) : pats[i].kind \in {"Some", "None"}) => cx.scrutinee_is_option
    /\ (\E i \in 1..Len(bodies) : bodies[i].kind \in {"None", "SomeCall"}) => cx.expr_is_option

ShapeCxs ==
    {Cx(so, eo, 0, "Not", TRUE, TRUE, FALSE) : so \in BOOLEAN, eo \in BOOLEAN}

LocalScrutinee == Scrutinee(<<>>, "Local1", TRUE)

\* matches that are not two arms without guards
OtherArms ==
    LET some == Arm(Pat(0, "Some", TRUE, BindingPat("NONE")),
                    Body(<<>>, "SomeCall", TRUE, PlainSomeArg), FALSE)
        none == Arm(Pat(0, "None", TRUE, BindingPat("NONE")), NoneBody, FALSE)
    IN  {<<some>>, <<some, none, none>>, <<[some EXCEPT !.guard = TRUE], none>>,
         <<some, [none EXCEPT !.guard = TRUE]>>}

PayloadPats ==
    {BindingPat(a) : a \in {"NONE", "MUT", "REF", "REF_MUT"}}
    \cup {PayloadPat("Tuple", "", e) : e \in {"None", "Not", "Mut"}}
    \cup {PayloadPat("Or", "", "None")}

\* Some-call arguments that capture Local1 in each way, or cannot be moved
CaptureArgs ==
    {SomeArg(FALSE, FALSE, TRUE, [NoCaptures EXCEPT !["Local1"] = k], "Other",
             FALSE, FALSE, FALSE, TRUE) : k \in {"Absent", "Value", "RefNot", "RefMut"}}
    \cup {SomeArg(FALSE, FALSE, FALSE, NoCaptures, "Other", FALSE, FALSE, FALSE, TRUE)}

CaptureScrutinees ==
    {Scrutinee(ops, root, TRUE) :
        ops \in SeqsUpTo({"Field", "AddrOf", "Index"}, MaxOps),
        root \in {"Local1", "Local2", "Call", "Unary"}}

CaptureCxs ==
    {Cx(TRUE, TRUE, n, m, TRUE, TRUE, FALSE) : n \in 0..MaxRefs, m \in {"Not", "Mut"}}

SomeArm(r, p, a) == Arm(Pat(r, "Some", TRUE, p), Body(<<>>, "SomeCall", TRUE, a), FALSE)

NoneArm == Arm(Pat(0, "None", TRUE, BindingPat("NONE")), NoneBody, FALSE)

ShapeMatch ==
    \E cx \in ShapeCxs, p1 \in ShapePats, p2 \in ShapePats,
       b1 \in ShapeBodies, b2 \in ShapeBodies :
        /\ WellTyped(cx, <<p1, p2>>, <<b1, b2>>)
        /\ check_match(cx, LocalScrutinee, <<Arm(p1, b1, FALSE), Arm(p2, b2, FALSE)>>)

OtherMatch ==
    \E arms \in OtherArms :
        check_match(Cx(TRUE, TRUE, 0, "Not", TRUE, TRUE, FALSE), LocalScrutinee, arms)

ShapeIfLet ==
    \E cx \in ShapeCxs, p \in ShapePats, b1 \in ShapeBodies, b2 \in ShapeBodies :
        /\ WellTyped(cx, <<p>>, <<b1, b2>>)
        /\ check_if_let(cx, p, LocalScrutinee, b1, b2)

CaptureMatch ==
    \E cx \in CaptureCxs, scrutinee \in CaptureScrutinees, r \in 0..MaxRefs,
       p \in PayloadPats, a \in CaptureArgs :
        check_match(cx, scrutinee, <<SomeArm(r, p, a), NoneArm>>)

CaptureIfLet ==
    \E cx \in CaptureCxs, p \in PayloadPats, a \in CaptureArgs :
        check_if_let(cx, Pat(0, "Some", TRUE, p), LocalScrutinee,
                     Body(<<>>, "SomeCall", TRUE, a), NoneBody)

\* Some-call arguments of each form: a call with one argument (which is
\* the payload binding or not, adjusted or not, of an unsafe function or
\* not, written at the call site or not), a path (the payload binding or
\* another), anything else
SynthArgs ==
    {SomeArg(FALSE, FALSE, TRUE, NoCaptures, "Call", ob, adj, fu, fc) :
        ob \in BOOLEAN, adj \in BOOLEAN, fu \in BOOLEAN, fc \in BOOLEAN}
    \cup {SomeArg(FALSE, FALSE, TRUE, NoCaptures, "Path", ob, FALSE, FALSE, TRUE) :
            ob \in BOOLEAN}
    \cup {PlainSomeArg}

\* the blocks around the Some call, a compiler-generated unsafe block
\* among them
SynthBlocks == SeqsUpTo({"Default", "Unsafe", "CompilerUnsafe", "Stmts"}, MaxBlocks)

SynthMatch ==
    \E n \in 0..MaxRefs, m \in {"Not", "Mut"}, allowed \in BOOLEAN, r \in 0..MaxRefs,
       p \in PayloadPats, bl \in SynthBlocks, a \in SynthArgs, k \in {"Wild", "None"} :
        check_match(Cx(TRUE, TRUE, n, m, TRUE, allowed, FALSE), LocalScrutinee,
                    <<Arm(Pat(r, "Some", TRUE, p), Body(bl, "SomeCall", TRUE, a), FALSE),
                      Arm(Pat(0, k, TRUE, BindingPat("NONE")), NoneBody, FALSE)>>)

SynthIfLet ==
    \E n \in 0..MaxRefs, m \in {"Not", "Mut"}, allowed \in BOOLEAN, ec \in BOOLEAN,
       p \in PayloadPats, bl \in SynthBlocks, a \in SynthArgs :
        check_if_let(Cx(TRUE, TRUE, n, m, TRUE, allowed, ec), Pat(0, "Some", TRUE, p),
                     LocalScrutinee, Body(bl, "SomeCall", TRUE, a), NoneBody)

\* nothing has been looked at yet
Unvisited == mm_in = <<>>

NextMap ==
    \/ Unvisited /\ ShapeMatch
    \/ Unvisited /\ OtherMatch
    \/ Unvisited /\ ShapeIfLet
    \/ Unvisited /\ CaptureMatch
    \/ Unvisited /\ CaptureIfLet
    \/ Unvisited /\ SynthMatch
    \/ Unvisited /\ SynthIfLet

SpecMap == Init /\ [][NextMap]_vars

\* check has been run on the two arms of the conditional
Checked ==
    /\ mm_in # <<>>
    /\ Len(mm_in[1].arms) = 2
    /\ \A i \in 1..2 : ~mm_in[1].arms[i].guard

ThenArm == mm_in[1].arms[1]
ElseArm == mm_in[1].arms[2]

\* the classes of section 4.1, reference layers aside
IsPresent(arm) == arm.pat.kind = "Some" /\ arm.pat.ctxt_same
IsWildcardOrAbsent(arm) ==
    \/ arm.pat.kind \in {"Wild", "None"}
    \/ mm_in[1].entry = "check_if_let" /\ arm = ElseArm

\* the body is the None path, inside default blocks with nothing but it
AbsentValued(arm) ==
    /\ arm.body.kind = "None"
    /\ \A i \in 1..Len(arm.body.blocks) : arm.body.blocks[i] = "Default"

CandidateShape ==
    \/ IsPresent(ThenArm) /\ ~IsPresent(ElseArm) /\ IsWildcardOrAbsent(ElseArm)
          /\ AbsentValued(ElseArm)
    \/ IsPresent(ElseArm) /\ mm_in[1].entry = "check_match" /\ IsWildcardOrAbsent(ThenArm)
          /\ AbsentValued(ThenArm)

FoundCandidate == mm_out[1].exit \notin {"not_option", "no_candidate", "not_two_arms"}

\* C3: check finds a candidate exactly when one arm's pattern is Present,
\* the other arm's pattern (or the missing else pattern of an if-let) is
\* Wildcard or Absent, and the body of that other arm is the absent value;
\* for every other combination no diagnostic is raised, whichever arm
\* comes first.
C3_CandidateExactly ==
    Checked =>
        /\ FoundCandidate <=> CandidateShape
        /\ ~CandidateShape => ~mm_out[1].lint

\* a diagnostic for a match whose Some arm comes second, after an arm
\* whose None is written inside a block
C3_Witness ==
    /\ Checked
    /\ mm_in[1].entry = "check_match"
    /\ IsPresent(ElseArm)
    /\ ThenArm.body.blocks # <<>>
    /\ mm_out[1].lint

\* the arm with the Some pattern of a recognised candidate
SomeArmOf == IF IsPresent(ThenArm) THEN ThenArm ELSE ElseArm

\* the scrutinee, through field accesses and reference-taking operations
\* only, is a local that the body of the closure captures by value or by
\* mutable reference
RootCaptured ==
    LET scrutinee == mm_in[1].scrutinee
        a == SomeArmOf.body.arg
    IN  /\ \A i \in 1..Len(scrutinee.ops) : scrutinee.ops[i] \in {"Field", "AddrOf"}
        /\ scrutinee.root \in Locals
        /\ a.can_move
        /\ a.captures[scrutinee.root] \in {"Value", "RefMut"}

\* a reference adapter (as_ref or as_mut) is selected for the candidate
AdapterSelected ==
    \/ SomeArmOf.pat.inner.explicit_ref # "None"
    \/ mm_in[1].cx.ty_ref_count # SomeArmOf.pat.refs

\* the statement of C4 as written: a captured root binding rejects the
\* rewrite whatever the binding mode.
C4_ConflictAlwaysRejects ==
    Checked /\ FoundCandidate /\ RootCaptured => ~mm_out[1].lint

\* C4 (amended): whenever a reference adapter (immutable or mutable) was
\* selected and the scrutinee, peeled through field accesses and
\* reference-taking operations, is a local binding that the closure body
\* captures ByValue or ByRef(mutable), the rule rejects the rewrite and
\* raises no diagnostic.  When no adapter is selected the captures are not
\* compared with the scrutinee and never reject the rewrite.
C4_ConflictRejectsUnderAdapter ==
    Checked /\ FoundCandidate =>
        /\ AdapterSelected /\ RootCaptured => ~mm_out[1].lint
        /\ ~AdapterSelected => mm_out[1].exit # "capture_conflict"

\* `&x.f` matched through a reference adapter while the closure body
\* captures x by mutable reference: rejected
C4_Witness ==
    /\ Checked
    /\ FoundCandidate
    /\ AdapterSelected
    /\ RootCaptured
    /\ Len(mm_in[1].scrutinee.ops) = 2
    /\ SomeArmOf.body.arg.captures[mm_in[1].scrutinee.root] = "RefMut"
    /\ mm_out[1].exit = "capture_conflict"

\* one of the blocks around the Some call is an unsafe block the user wrote
HasUserUnsafe == \E i \in 1..Len(SomeArmOf.body.blocks) : SomeArmOf.body.blocks[i] = "Unsafe"

\* C12: whenever one of the statement-free blocks peeled off the Some call
\* is a user-written unsafe block, every suggestion has the form of a
\* closure (over a single binding or over a destructuring pattern) whose
\* body is wrapped in an unsafe block, never the point-free callee-only
\* form; and a closure body is wrapped in an unsafe block only then.
C12_UnsafeWrapped ==
    Checked /\ mm_out[1].lint =>
        /\ HasUserUnsafe =>
              mm_out[1].body \in {"closure", "closure_pat"} /\ mm_out[1].unsafe_block
        /\ mm_out[1].unsafe_block => HasUserUnsafe

\* `Some(x) => unsafe { Some(f(x)) }` with a callee that could be passed
\* on its own: the closure form with the unsafe block
C12_Witness ==
    /\ Checked
    /\ mm_out[1].lint
    /\ HasUserUnsafe
    /\ mm_out[1].unsafe_block
    /\ mm_out[1].body = "closure"
    /\ can_pass_as_func(SomeArmOf.body.arg)
    /\ SomeArmOf.body.arg.func_ctxt_same

\* the payload pattern is a single binding without a sub-pattern
SingleBinding == SomeArmOf.pat.inner.kind = "Binding"

\* the binding mode comes from a difference between the reference depth
\* of the scrutinee's type and that of the pattern, not from an annotation
InferredFromMismatch ==
    /\ SomeArmOf.pat.inner.explicit_ref = "None"
    /\ mm_in[1].cx.ty_ref_count # SomeArmOf.pat.refs

\* the body qualifies for the point-free form: `f(binding)` with a callee
\* written at the call site, outside any user-written unsafe block
PointFree ==
    /\ ~HasUserUnsafe
    /\ can_pass_as_func(SomeArmOf.body.arg)
    /\ SomeArmOf.body.arg.func_ctxt_same

\* the closure body is the payload binding itself
BodyIsBinding == SomeArmOf.body.arg.form = "Path" /\ SomeArmOf.body.arg.on_binding

\* the statement of C13 as written: abstention whatever the body is.
C13_AbstainsWhateverBody ==
    /\ Checked /\ FoundCandidate
    /\ SingleBinding /\ InferredFromMismatch /\ ~PointFree
    /\ ~mm_in[1].cx.match_as_ref_allowed
    => ~mm_out[1].lint

\* C13 (amended): for a candidate whose payload pattern is a single plain
\* binding and whose body is not the point-free form, the rule abstains
\* in favour of MATCH_AS_REF exactly when a reference adapter is selected
\* (by a reference-depth mismatch or by a `ref` annotation of the
\* binding), MATCH_AS_REF is not suppressed, and the closure body is the
\* payload binding itself.  For any other body the rule does not defer:
\* unless the wrapped value was not found or an earlier check (unit
\* value, adjustments, captures) rejected it, the diagnostic is raised.
C13_AbstainsOnBindingBody ==
    Checked /\ FoundCandidate /\ SingleBinding /\ ~PointFree =>
        /\ AdapterSelected /\ ~mm_in[1].cx.match_as_ref_allowed /\ BodyIsBinding
              => ~mm_out[1].lint
        /\ mm_out[1].exit = "match_as_ref"
              => AdapterSelected /\ ~mm_in[1].cx.match_as_ref_allowed /\ BodyIsBinding
        /\ ~BodyIsBinding =>
              mm_out[1].exit \in {"no_some_expr", "unit", "adjusted", "cannot_move",
                                  "capture_conflict", "lint"}

\* `match &opt { Some(x) => Some(x), None => None }` with MATCH_AS_REF
\* in force: left to that rule
C13_Witness ==
    /\ Checked
    /\ SingleBinding
    /\ InferredFromMismatch
    /\ BodyIsBinding
    /\ ~mm_in[1].cx.match_as_ref_allowed
    /\ mm_out[1].exit = "match_as_ref"

\* C14: the reference adapter of every emitted suggestion is the variant
\* named by the explicit reference annotation of the payload pattern when
\* there is one, whatever the reference depths; otherwise the variant
\* given by the mutability of the scrutinee type's references when the
\* type's reference depth differs from the pattern's; otherwise there is
\* no adapter.
C14_AdapterSelection ==
    Checked /\ mm_out[1].lint =>
        LET explicit_ref == SomeArmOf.pat.inner.explicit_ref
            cx == mm_in[1].cx
        IN  mm_out[1].as_ref_str =
                CASE explicit_ref = "Mut" -> ".as_mut()"
                  [] explicit_ref = "Not" -> ".as_ref()"
                  [] explicit_ref = "None" /\ cx.ty_ref_count # SomeArmOf.pat.refs ->
                        (IF cx.ty_mutability = "Mut" THEN ".as_mut()" ELSE ".as_ref()")
                  [] OTHER -> ""

\* `Some(ref mut x)` matched against a scrutinee behind a shared
\* reference: the annotation decides, as_mut
C14_Witness ==
    /\ Checked
    /\ mm_out[1].lint
    /\ SomeArmOf.pat.inner.explicit_ref = "Mut"
    /\ mm_in[1].cx.ty_ref_count # SomeArmOf.pat.refs
    /\ mm_in[1].cx.ty_mutability = "Not"
    /\ mm_out[1].as_ref_str = ".as_mut()"

====
